---- MODULE Spec2Model ----
(***************************************************************************)
(* State-machine model of libmqtt's per-connection tasks                   *)
(* (src/client_conn.go): the receive loop handleNetRecv, the session       *)
(* engine logic, the keepalive task and the send pipeline handleSend,      *)
(* together with the collaborators they call (packet-id allocator,         *)
(* persistence, notification channel, client API producers).               *)
(*                                                                         *)
(* The three clientConn channels netRecvC, keepaliveC and logicSendC are   *)
(* modelled as rendezvous channels: a sender sits at a "send" position     *)
(* with its pending packet until the receiving task takes it.              *)
(* SubscribePacket.WriteTo (src/unnamed/part_000) is modelled as a function *)
(* on byte sequences and followed by a specification of its own, SpecEnc.  *)
(* Time is counted in quarters of the keepalive interval, so that the      *)
(* ticker period keepalive*3/4 is 3 units.                                 *)
(***************************************************************************)
EXTENDS Integers, Sequences, FiniteSets, TLC

\* ------------------------------------------------------------------ bounds
MaxPid == 1
MaxRecv == 2
MaxUser == 1
SendChanSize == 1
RecvChanSize == 1
SinceCap == 8
MaxFaults == 1
MaxTopics == 2

\* ------------------------------------------------------- program constants
Qos0 == 0
Qos1 == 1
Qos2 == 2
KeepaliveUnits == 4
TickerUnits == (KeepaliveUnits * 3) \div 4

Pids == 1..MaxPid
Versions == {"V311", "V5"}
\* keepaliveFactor, as the pair <<numerator, denominator>>: 0.5, 1.0, 2.0
Factors == {<<1, 2>>, <<1, 1>>, <<2, 1>>}

\* ----------------------------------------------------------------- packets
NoPkt == [type |-> "None", id |-> 0, qos |-> 0, dup |-> FALSE, ver |-> "V0", codes |-> <<>>]

Pkt(t, i, v) == [type |-> t, id |-> i, qos |-> 0, dup |-> FALSE, ver |-> v, codes |-> <<>>]

PublishPkt(i, q, d, v) ==
    [type |-> "Publish", id |-> i, qos |-> q, dup |-> d, ver |-> v, codes |-> <<>>]

\* a SUBSCRIBE with one Topic, whose requested QoS is q
SubscribePkt(i, q, v) == [Pkt("Subscribe", i, v) EXCEPT !.qos = q]

\* a SUBACK with the return codes c
SubAckPkt(i, c, v) == [Pkt("SubAck", i, v) EXCEPT !.codes = c]

\* SubAckPacket.Codes values: granted QoS 0/1/2, failure 0x80, and for V5
\* also a reason code above 0x80 (0x87, not authorized)
SubCodes(v) == {Qos0, Qos1, Qos2, 128} \cup (IF v = "V5" THEN {135} ELSE {})

\* BasePacket.SetVersion / Version
SetVersion(p, v) == [p EXCEPT !.ver = v]

Version(p) == p.ver

\* persistence keys
sendKey(i) == <<"send", i>>

recvKey(i) == <<"recv", i>>

Keys == {sendKey(i) : i \in Pids} \cup {recvKey(i) : i \in Pids}

\* what idGen and persist hold for a packet: its type and QoS
NoOrigin == [type |-> "None", qos |-> 0]

Kind(p) == [type |-> p.type, qos |-> p.qos]

VARIABLES
    protoVersion,   \* c.protoVersion
    keepalive,      \* c.parent.options.keepalive, in time units (0 = disabled)
    timeout,        \* keepalive * keepaliveFactor, in time units
    ctxDone,        \* c.ctx cancelled
    connClosed,     \* c.conn closed
    closing,        \* c.parent.isClosing()
    sent,           \* c.parent.idGen: pid -> original request
    persist,        \* c.parent.persist: key -> stored packet
    sendCh,         \* c.parent.sendCh
    recvCh,         \* c.parent.recvCh
    recvPc,         \* position of handleNetRecv
    recvPkt,        \* packet handleNetRecv is handing off
    recvLeft,       \* packets the server will still send
    logicPc,        \* position of logic
    logicPkt,       \* packet logic is handling
    logicOut,       \* packet logic is sending on logicSendC
    logicEmit,      \* packet the current handler has put on logicSendC
    sendPc,         \* position of handleSend
    sendPkt,        \* packet handleSend has written and is post-processing
    sendExit,       \* why handleSend returned
    flushArmed,     \* flushSig armed with flushDelayInterval
    wire,           \* packets written to c.connRW and not yet flushed
    kaPc,           \* position of keepalive
    tickIn,         \* time until the ticker t fires next
    tickReady,      \* a tick is waiting in t.C
    timerIn,        \* time until timeoutTimer fires (-1: not running)
    timerReady,     \* a value is waiting in timeoutTimer.C
    sincePing,      \* time since the last PINGREQ was sent (-1: none)
    kaTimedOut,     \* keepalive closed the connection for timeout
    userLeft,       \* requests the client API will still make
    apiOut,         \* packet a client API call is sending on logicSendC
    delivCnt,       \* pid -> deliveries to recvCh of the inbound QoS2 PUBLISH and its DUP copies
    relCnt,         \* pid -> PUBREL emitted since pid was allocated
    resCnt,         \* pid -> result notifications since pid was allocated (0: QoS0)
    subMsg,         \* QoS of the topics of the last notifySubMsg (<<>>: none yet)
    faultsLeft,     \* failures the environment will still inject
    persistEvents,  \* persistence events surfaced on msgCh with an error
    subPkt,         \* the SubscribePacket s that WriteTo is called on
    wbuf,           \* bytes WriteTo has written to the BufferedWriter w
    wErr            \* error WriteTo returned ("none": not called yet)

connVars == <<protoVersion, keepalive, timeout, ctxDone, connClosed, closing>>

idVars == <<sent, persist>>

recvVars == <<recvPc, recvPkt, recvLeft>>

logicVars == <<logicPc, logicPkt, logicOut, logicEmit>>

sendVars == <<sendPc, sendPkt, sendExit, flushArmed, wire>>

kaVars == <<kaPc, tickIn, tickReady, timerIn, timerReady, sincePing, kaTimedOut>>

histVars == <<delivCnt, relCnt, resCnt, subMsg, faultsLeft, persistEvents>>

userVars == <<userLeft, apiOut>>

encVars == <<subPkt, wbuf, wErr>>

vars == <<connVars, idVars, sendCh, recvCh, recvVars, logicVars, sendVars,
          kaVars, userVars, histVars, encVars>>

\* ------------------------------------------------------------------- Init
\* the state after the connection is set up and its tasks are spawned:
\* ka is options.keepalive, f options.keepaliveFactor, u the requests the
\* client API will make, n the failures the environment will inject
InitWith(ka, f, u, n) ==
    /\ protoVersion \in Versions
    /\ keepalive = ka
    /\ timeout = (ka * f[1]) \div f[2]
    /\ ctxDone = FALSE
    /\ connClosed = FALSE
    /\ closing = FALSE
    /\ sent = [i \in Pids |-> NoOrigin]
    /\ persist = [k \in Keys |-> NoOrigin]
    /\ sendCh = <<>>
    /\ recvCh = <<>>
    /\ recvPc = "decode"
    /\ recvPkt = NoPkt
    /\ recvLeft = MaxRecv
    /\ logicPc = "start"
    /\ logicPkt = NoPkt
    /\ logicOut = NoPkt
    /\ logicEmit = NoPkt
    /\ sendPc = "select"
    /\ sendPkt = NoPkt
    /\ sendExit = "none"
    /\ flushArmed = FALSE
    /\ wire = {}
    /\ kaPc = "off"
    /\ tickIn = 0
    /\ tickReady = FALSE
    /\ timerIn = -1
    /\ timerReady = FALSE
    /\ sincePing = -1
    /\ kaTimedOut = FALSE
    /\ userLeft = u
    /\ apiOut = NoPkt
    /\ delivCnt = [i \in Pids |-> 0]
    /\ relCnt = [i \in Pids |-> 0]
    /\ resCnt = [i \in 0..MaxPid |-> 0]
    /\ subMsg = <<>>
    /\ faultsLeft = n
    /\ persistEvents = 0

\* a nil *SubscribePacket
NilSub == [id |-> 0, topics |-> <<>>, ver |-> "nil"]

\* no WriteTo call is being followed
EncIdle == subPkt = NilSub /\ wbuf = <<>> /\ wErr = "none"

\* keepalive disabled
Init == InitWith(0, <<1, 1>>, MaxUser, MaxFaults) /\ EncIdle

\* keepalive enabled, no client requests, no injected failures
InitKA == (\E f \in Factors : InitWith(KeepaliveUnits, f, 0, 0)) /\ EncIdle

\* ------------------------------------------------------------ collaborators
\* idGen.getExtra
getExtra(i) == sent[i]

getExtraOk(i) == i \in Pids /\ sent[i] # NoOrigin

\* idGen.free
free(s, i) == [s EXCEPT ![i] = NoOrigin]

\* idGen.next: bind a free pid to the original request
next(s, i, origin) == [s EXCEPT ![i] = origin]

\* persist.Store / persist.Delete: a failing call leaves the store unchanged
Store(st, k, v, err) == IF err THEN st ELSE [st EXCEPT ![k] = v]

Delete(st, k, err) == IF err THEN st ELSE [st EXCEPT ![k] = NoOrigin]

\* notifyPersistMsg: the error of a failed call is surfaced on msgCh
notifyPersistMsg(n, err) == IF err THEN n + 1 ELSE n

\* outcomes of a call that can fail, and the failures left after it
Errs == IF faultsLeft > 0 THEN BOOLEAN ELSE {FALSE}

Faults(err) == IF err THEN faultsLeft - 1 ELSE faultsLeft

\* --------------------------------------------------------------- client API
\* Publish / Subscribe / UnSubscribe / Destroy of the client that owns the
\* connection: allocate a pid, bind the request, persist a QoS>0 publish,
\* queue the packet on sendCh.
UserPublish ==
    /\ userLeft > 0
    /\ ~closing
    /\ Len(sendCh) < SendChanSize
    /\ \E q \in {Qos0, Qos1, Qos2}, v \in Versions :
         \/ /\ q = Qos0
            /\ sendCh' = Append(sendCh, PublishPkt(0, q, FALSE, v))
            /\ UNCHANGED <<sent, persist, relCnt, resCnt, subMsg, faultsLeft, persistEvents>>
         \/ /\ q # Qos0
            /\ \E i \in Pids, err \in Errs :
                 /\ ~getExtraOk(i)
                 /\ sent' = next(sent, i, Kind(PublishPkt(i, q, FALSE, v)))
                 /\ persist' = Store(persist, sendKey(i), Kind(PublishPkt(i, q, FALSE, v)), err)
                 /\ faultsLeft' = Faults(err)
                 /\ persistEvents' = notifyPersistMsg(persistEvents, err)
                 /\ relCnt' = [relCnt EXCEPT ![i] = 0]
                 /\ resCnt' = [resCnt EXCEPT ![i] = 0]
                 /\ sendCh' = Append(sendCh, PublishPkt(i, q, FALSE, v))
    /\ userLeft' = userLeft - 1
    /\ UNCHANGED <<connVars, recvCh, recvVars, logicVars, sendVars, kaVars,
                   delivCnt, subMsg, apiOut, encVars>>

UserSubscribe ==
    /\ userLeft > 0
    /\ ~closing
    /\ Len(sendCh) < SendChanSize
    /\ \E i \in Pids, v \in Versions :
         \E pkt \in {SubscribePkt(i, q, v) : q \in {Qos0, Qos1, Qos2}} \cup {Pkt("UnSub", i, v)} :
             /\ ~getExtraOk(i)
             /\ sent' = next(sent, i, Kind(pkt))
             /\ sendCh' = Append(sendCh, pkt)
         /\ relCnt' = [relCnt EXCEPT ![i] = 0]
         /\ resCnt' = [resCnt EXCEPT ![i] = 0]
    /\ userLeft' = userLeft - 1
    /\ UNCHANGED <<connVars, persist, recvCh, recvVars, logicVars, sendVars, kaVars,
                   delivCnt, subMsg, faultsLeft, persistEvents, apiOut, encVars>>

\* a DISCONNECT queued on sendCh, or passed to c.send, which drops it when
\* the client is closing and else sends it on logicSendC
UserDisconnect ==
    /\ userLeft > 0
    /\ ~closing
    /\ \E v \in Versions :
         \/ /\ Len(sendCh) < SendChanSize
            /\ sendCh' = Append(sendCh, Pkt("DisConn", 0, v))
            /\ UNCHANGED apiOut
         \/ /\ apiOut = NoPkt
            /\ apiOut' = Pkt("DisConn", 0, v)
            /\ UNCHANGED sendCh
    /\ userLeft' = userLeft - 1
    /\ UNCHANGED <<connVars, idVars, recvCh, recvVars, logicVars, sendVars, kaVars,
                   histVars, encVars>>

\* the application reads a delivered publish from recvCh
UserRecv ==
    /\ recvCh # <<>>
    /\ recvCh' = Tail(recvCh)
    /\ UNCHANGED <<connVars, idVars, sendCh, recvVars, logicVars, sendVars, kaVars,
                   userVars, encVars, histVars>>

\* the owning client starts closing: isClosing() turns true and the
\* connection context, a child of the client's, is cancelled
ParentClose ==
    /\ ~closing
    /\ closing' = TRUE
    /\ ctxDone' = TRUE
    /\ UNCHANGED <<protoVersion, keepalive, timeout, connClosed, idVars, sendCh,
                   recvCh, recvVars, logicVars, sendVars, kaVars, userVars, encVars, histVars>>

\* ------------------------------------------------------------ handleNetRecv
\* packets Decode can return
Incoming ==
    {Pkt(t, i, v) : t \in {"UnSubAck", "PubAck", "PubRecv", "PubRel", "PubComp"},
                    i \in Pids, v \in Versions}
    \cup UNION {{SubAckPkt(i, c, v) : c \in {<<>>} \cup {<<x>> : x \in SubCodes(v)}} :
                    i \in Pids, v \in Versions}
    \cup {PublishPkt(0, Qos0, FALSE, v) : v \in Versions}
    \cup {PublishPkt(i, Qos1, FALSE, v) : i \in Pids, v \in Versions}
    \cup {PublishPkt(i, Qos2, d, v) : i \in Pids, d \in BOOLEAN, v \in Versions}
    \cup {Pkt(t, 0, v) : t \in {"PingResp", "ConnAck"}, v \in Versions}

\* top of the for loop: select on ctx.Done() with a default branch
RecvLoopPc == IF ctxDone THEN "exited" ELSE "decode"

\* deferred close(c.netRecvC); close(c.keepaliveC)
netRecvCClosed == recvPc = "exited"

keepaliveCClosed == recvPc = "exited"

\* Decode returns a packet: version check, then hand-off position
RecvDecode ==
    /\ recvPc = "decode"
    /\ ~connClosed
    /\ recvLeft > 0
    /\ recvLeft' = recvLeft - 1
    /\ \E p \in Incoming :
         IF Version(p) # protoVersion
         THEN /\ ctxDone' = TRUE
              /\ recvPc' = "exited"
              /\ recvPkt' = NoPkt
         ELSE /\ recvPc' = IF p.type = "PingResp" THEN "sendKeepaliveC" ELSE "sendNetRecvC"
              /\ recvPkt' = p
              /\ UNCHANGED ctxDone
    /\ UNCHANGED <<protoVersion, keepalive, timeout, connClosed, closing, idVars,
                   sendCh, recvCh, logicVars, sendVars, kaVars, userVars, encVars, histVars>>

\* Decode returns an error (malformed input, broken or closed connection)
RecvDecodeErr ==
    /\ recvPc = "decode"
    /\ ctxDone' = TRUE
    /\ recvPc' = "exited"
    /\ UNCHANGED <<protoVersion, keepalive, timeout, connClosed, closing, idVars,
                   sendCh, recvCh, recvPkt, recvLeft, logicVars, sendVars, kaVars,
                   userVars, encVars, histVars>>

\* ------------------------------------------------------------------- logic
\* the packet a handler passes to c.send
Reply(p) ==
    LET origin == IF getExtraOk(p.id) THEN getExtra(p.id) ELSE NoOrigin
        isPub2 == origin.type = "Publish" /\ origin.qos = Qos2
    IN CASE p.type = "Publish" /\ p.qos = Qos1 -> Pkt("PubAck", p.id, "V0")
         [] p.type = "Publish" /\ p.qos = Qos2 -> Pkt("PubRecv", p.id, "V0")
         [] p.type = "PubRecv" /\ isPub2 -> Pkt("PubRel", p.id, "V0")
         [] p.type = "PubRel" /\ isPub2 -> Pkt("PubComp", p.id, "V0")
         [] p.type = "PubComp" /\ isPub2 -> Pkt("PubRel", p.id, "V0")
         [] OTHER -> NoPkt

\* Completes with the ok result of idGen.getExtra left untested
CompletesNoLookup(p) ==
    LET origin == getExtra(p.id)
    IN \/ p.type = "SubAck" /\ origin.type \in {"Subscribe", "None"}
       \/ p.type = "UnSubAck" /\ origin.type \in {"UnSub", "None"}
       \/ p.type = "PubAck" /\ (origin = NoOrigin \/ (origin.type = "Publish" /\ origin.qos = Qos1))
       \/ p.type = "PubComp" /\ (origin = NoOrigin \/ (origin.type = "Publish" /\ origin.qos = Qos2))

\* Completes with the PubAck handler's originPub.Qos == Qos1 test left out
CompletesAnyQos(p) ==
    /\ getExtraOk(p.id)
    /\ LET origin == getExtra(p.id)
       IN \/ p.type = "SubAck" /\ origin.type = "Subscribe"
          \/ p.type = "UnSubAck" /\ origin.type = "UnSub"
          \/ p.type = "PubAck" /\ origin.type = "Publish"
          \/ p.type = "PubComp" /\ origin.type = "Publish" /\ origin.qos = Qos2

\* the handler frees the pid and notifies the result of the original request
Completes(p) ==
    /\ getExtraOk(p.id)
    /\ LET origin == getExtra(p.id)
       IN \/ p.type = "SubAck" /\ origin.type = "Subscribe"
          \/ p.type = "UnSubAck" /\ origin.type = "UnSub"
          \/ p.type = "PubAck" /\ origin.type = "Publish" /\ origin.qos = Qos1
          \/ p.type = "PubComp" /\ origin.type = "Publish" /\ origin.qos = Qos2

\* case *SubAckPacket: v.Qos = p.Codes[i] for every topic i < len(p.Codes),
\* then notifySubMsg(originSub.Topics, nil): the QoS of the reported topics
SubAckTopics(origin, codes) == IF 0 < Len(codes) THEN <<codes[1]>> ELSE <<origin.qos>>

\* the persistence call a handler ends with: <<operation, key, value>>
LogicPersistOp(p) ==
    CASE Completes(p) -> <<"Delete", sendKey(p.id), NoOrigin>>
      [] p.type = "Publish" /\ p.qos \in {Qos1, Qos2} -> <<"Store", recvKey(p.id), Kind(p)>>
      [] p.type = "PubRel" /\ Reply(p) # NoPkt -> <<"Store", recvKey(p.id), Kind(p)>>
      [] OTHER -> <<"None", sendKey(0), NoOrigin>>

PersistErrs(op) == IF op[1] = "None" THEN {FALSE} ELSE Errs

ApplyPersist(op, err) ==
    CASE op[1] = "Store" -> Store(persist, op[2], op[3], err)
      [] op[1] = "Delete" -> Delete(persist, op[2], err)
      [] OTHER -> persist

\* LogicDoneNP returning early, with the connection cancelled, when the
\* persistence call fails
LogicDoneNPAbort(p, err) ==
    /\ logicPc' = "select"
    /\ logicPkt' = p
    /\ logicOut' = NoPkt
    /\ IF Completes(p) /\ ~err
       THEN /\ sent' = free(sent, p.id)
            /\ resCnt' = [resCnt EXCEPT ![p.id] = @ + 1]
            /\ subMsg' = IF p.type = "SubAck" THEN SubAckTopics(getExtra(p.id), p.codes) ELSE subMsg
       ELSE UNCHANGED <<sent, resCnt, subMsg>>
    /\ ctxDone' = (ctxDone \/ err)
    /\ UNCHANGED <<protoVersion, keepalive, timeout, connClosed, closing, sendCh>>

\* LogicDoneNP with the c.parent.idGen.free calls left out
LogicDoneNPKeepsPid(p, err) ==
    /\ logicPc' = "select"
    /\ logicPkt' = p
    /\ logicOut' = NoPkt
    /\ IF Completes(p)
       THEN /\ resCnt' = [resCnt EXCEPT ![p.id] = @ + 1]
            /\ subMsg' = IF p.type = "SubAck" THEN SubAckTopics(getExtra(p.id), p.codes) ELSE subMsg
       ELSE UNCHANGED <<resCnt, subMsg>>
    /\ UNCHANGED <<connVars, sendCh, sent>>

\* tail of a handler, after its channel sends: notifications and pid free
LogicDoneNP(p, err) ==
    /\ logicPc' = "select"
    /\ logicPkt' = p
    /\ logicOut' = NoPkt
    /\ IF Completes(p)
       THEN /\ sent' = free(sent, p.id)
            /\ resCnt' = [resCnt EXCEPT ![p.id] = @ + 1]
            /\ subMsg' = IF p.type = "SubAck" THEN SubAckTopics(getExtra(p.id), p.codes) ELSE subMsg
       ELSE UNCHANGED <<sent, resCnt, subMsg>>
    /\ UNCHANGED <<connVars, sendCh>>

\* tail of a handler: its persistence call and notifyPersistMsg
LogicDoneP(p, err) ==
    /\ persist' = ApplyPersist(LogicPersistOp(p), err)
    /\ faultsLeft' = Faults(err)
    /\ persistEvents' = notifyPersistMsg(persistEvents, err)

LogicDone(p) ==
    \E err \in PersistErrs(LogicPersistOp(p)) :
        LogicDoneNP(p, err) /\ LogicDoneP(p, err)

\* a handler that returns without a send on logicSendC has emitted nothing
LogicDoneNoSend(p) == LogicDone(p) /\ logicEmit' = NoPkt

\* c.send: dropped when the client is closing, else a send on logicSendC
LogicSendOrDone(p) ==
    IF Reply(p) # NoPkt /\ ~closing
    THEN /\ logicPc' = "send"
         /\ logicPkt' = p
         /\ logicOut' = Reply(p)
         /\ logicEmit' = NoPkt
         /\ UNCHANGED <<connVars, sendCh, sent, resCnt, subMsg, persist, faultsLeft,
                        persistEvents>>
    ELSE LogicDoneNoSend(p)

\* start keepalive if required, then enter the loop
LogicStart ==
    /\ logicPc = "start"
    /\ logicPc' = "select"
    /\ IF keepalive > 0
       THEN /\ kaPc' = "select"
            /\ tickIn' = TickerUnits
            /\ timerIn' = timeout
       ELSE UNCHANGED <<kaPc, tickIn, timerIn>>
    /\ UNCHANGED <<connVars, idVars, sendCh, recvCh, recvVars, logicPkt, logicOut,
                   logicEmit, sendVars, tickReady, timerReady, sincePing, kaTimedOut,
                   userVars, encVars, histVars>>

\* case <-c.ctx.Done() / netRecvC closed: return, the defer closes c.conn
LogicExit ==
    /\ logicPc = "select"
    /\ ctxDone \/ netRecvCClosed
    /\ logicPc' = "exited"
    /\ connClosed' = TRUE
    /\ UNCHANGED <<protoVersion, keepalive, timeout, ctxDone, closing, idVars, sendCh,
                   recvCh, recvVars, logicPkt, logicOut, logicEmit, sendVars, kaVars,
                   userVars, encVars, histVars>>

\* case pkt := <-c.netRecvC: the handler up to its first blocking send
LogicRecv ==
    /\ logicPc = "select"
    /\ recvPc = "sendNetRecvC"
    /\ recvPc' = RecvLoopPc
    /\ recvPkt' = NoPkt
    /\ delivCnt' = IF recvPkt.type = "PubRel"
                   THEN [delivCnt EXCEPT ![recvPkt.id] = 0]
                   ELSE delivCnt
    /\ IF recvPkt.type = "Publish"
       THEN /\ logicPc' = "deliver"
            /\ logicPkt' = recvPkt
            /\ logicEmit' = NoPkt
            /\ UNCHANGED <<connVars, sendCh, logicOut, sent, resCnt, subMsg, persist,
                           faultsLeft, persistEvents>>
       ELSE LogicSendOrDone(recvPkt)
    /\ UNCHANGED <<recvCh, recvLeft, sendVars, kaVars, userVars, encVars, relCnt>>

\* c.parent.recvCh <- p, then the QoS switch up to its c.send
LogicDeliver ==
    /\ logicPc = "deliver"
    /\ Len(recvCh) < RecvChanSize
    /\ recvCh' = Append(recvCh, logicPkt)
    /\ delivCnt' = IF logicPkt.qos = Qos2
                   THEN [delivCnt EXCEPT ![logicPkt.id] = IF logicPkt.dup THEN @ + 1 ELSE 1]
                   ELSE delivCnt
    /\ LogicSendOrDone(logicPkt)
    /\ UNCHANGED <<recvVars, sendVars, kaVars, userVars, encVars, relCnt>>

\* the rest of a handler once its send on logicSendC has been received
LogicFinish ==
    /\ logicPc = "finish"
    /\ LogicDone(logicPkt)
    /\ UNCHANGED <<recvCh, recvVars, logicEmit, sendVars, kaVars, userVars, encVars, delivCnt,
                   relCnt>>

\* -------------------------------------------------------------- handleSend
\* Packet.WriteTo: fails on an unsupported version or a failing writer
WriteToErr(p, ioErr) == Version(p) \notin Versions \/ ioErr

\* WriteTo without the SetVersion before it
EncodedAsProduced(p) == p

\* pkt.SetVersion(c.protoVersion) before pkt.WriteTo(c.connRW)
Encoded(p) == SetVersion(p, protoVersion)

\* what an encode error does besides ending handleSend
EncodeErrExit ==
    /\ sendPc' = "exited"
    /\ sendExit' = "encode"
    /\ UNCHANGED <<connVars, wire, flushArmed, sendPkt>>

\* case <-c.ctx.Done()
HandleSendExit ==
    /\ sendPc = "select"
    /\ ctxDone
    /\ sendPc' = "exited"
    /\ sendExit' = "ctx"
    /\ UNCHANGED <<connVars, idVars, sendCh, recvCh, recvVars, logicVars, sendPkt,
                   flushArmed, wire, kaVars, userVars, encVars, histVars>>

\* case <-flushSig.C
HandleSendFlush ==
    /\ sendPc = "select"
    /\ flushArmed
    /\ flushArmed' = FALSE
    /\ \E err \in Errs :
         /\ faultsLeft' = Faults(err)
         /\ IF err
            THEN sendPc' = "exited" /\ sendExit' = "flush" /\ UNCHANGED wire
            ELSE wire' = {} /\ UNCHANGED <<sendPc, sendExit>>
    /\ UNCHANGED <<connVars, idVars, sendCh, recvCh, recvVars, logicVars, sendPkt,
                   kaVars, userVars, encVars, delivCnt, relCnt, resCnt, subMsg, persistEvents>>

\* DisConnExit with the c.exit() call left out
DisConnExitNoCancel(p) ==
    \E fErr \in Errs :
        /\ faultsLeft' = Faults(fErr)
        /\ wire' = IF fErr THEN wire \cup {p} ELSE {}
        /\ flushArmed' = FALSE
        /\ connClosed' = TRUE
        /\ sendPc' = "exited"
        /\ sendExit' = "disconn"
        /\ UNCHANGED <<protoVersion, keepalive, timeout, ctxDone, closing, sendPkt>>

\* case *DisConnPacket, after the write: Flush (a failure is only logged),
\* c.conn.Close(), c.exit(), return; the defer stops flushSig
DisConnExit(p) ==
    \E fErr \in Errs :
        /\ faultsLeft' = Faults(fErr)
        /\ wire' = IF fErr THEN wire \cup {p} ELSE {}
        /\ flushArmed' = FALSE
        /\ connClosed' = TRUE
        /\ ctxDone' = TRUE
        /\ sendPc' = "exited"
        /\ sendExit' = "disconn"
        /\ UNCHANGED <<protoVersion, keepalive, timeout, closing, sendPkt>>

\* case pkt := <-c.parent.sendCh
HandleSendUser ==
    /\ sendPc = "select"
    /\ sendCh # <<>>
    /\ sendCh' = Tail(sendCh)
    /\ LET p == Encoded(Head(sendCh))
       IN \E ioErr \in Errs :
            IF WriteToErr(p, ioErr)
            THEN faultsLeft' = Faults(ioErr) /\ EncodeErrExit /\ UNCHANGED resCnt
            ELSE /\ resCnt' = IF p.type = "Publish" /\ p.qos = Qos0
                              THEN [resCnt EXCEPT ![0] = @ + 1]
                              ELSE resCnt
                 /\ IF p.type = "DisConn"
                    THEN DisConnExit(p)
                    ELSE /\ wire' = wire \cup {p}
                         /\ flushArmed' = TRUE
                         /\ UNCHANGED <<connVars, sendPc, sendExit, sendPkt, faultsLeft>>
    /\ UNCHANGED <<idVars, recvCh, recvVars, logicVars, kaVars, userVars, encVars,
                   delivCnt, relCnt, subMsg, persistEvents>>

\* packet types whose write is followed by a persistence call
SendPersists(p) == p.type \in {"PubRel", "PubAck", "PubComp"}

\* SetVersion and WriteTo of a packet received from logicSendC
HandleSendWrite(pkt) ==
    LET p == Encoded(pkt)
    IN \E ioErr \in Errs :
         IF WriteToErr(p, ioErr)
         THEN faultsLeft' = Faults(ioErr) /\ EncodeErrExit
         ELSE IF p.type = "DisConn"
              THEN DisConnExit(p)
              ELSE /\ wire' = wire \cup {p}
                   /\ flushArmed' = TRUE
                   /\ sendPkt' = IF SendPersists(p) THEN p ELSE NoPkt
                   /\ sendPc' = IF SendPersists(p) THEN "post" ELSE "select"
                   /\ UNCHANGED <<connVars, sendExit, faultsLeft>>

\* case pkt := <-c.logicSendC, sent by a client API call
HandleSendApi ==
    /\ sendPc = "select"
    /\ apiOut # NoPkt
    /\ apiOut' = NoPkt
    /\ HandleSendWrite(apiOut)
    /\ UNCHANGED <<idVars, sendCh, recvCh, recvVars, logicVars, kaVars, userLeft,
                   delivCnt, relCnt, resCnt, subMsg, persistEvents, encVars>>

\* case pkt := <-c.logicSendC, sent by logic
HandleSendLogic ==
    /\ sendPc = "select"
    /\ logicPc = "send"
    /\ logicPc' = "finish"
    /\ logicEmit' = logicOut
    /\ relCnt' = IF logicOut.type = "PubRel"
                 THEN [relCnt EXCEPT ![logicOut.id] = @ + 1]
                 ELSE relCnt
    /\ HandleSendWrite(logicOut)
    /\ UNCHANGED <<idVars, sendCh, recvCh, recvVars, logicPkt, logicOut, kaVars,
                   userVars, encVars, delivCnt, resCnt, subMsg, persistEvents>>

\* case pkt := <-c.logicSendC, sent by keepalive
HandleSendPing ==
    /\ sendPc = "select"
    /\ kaPc = "send"
    /\ kaPc' = "wait"
    /\ sincePing' = 0
    /\ HandleSendWrite(Pkt("PingReq", 0, "V0"))
    /\ UNCHANGED <<idVars, sendCh, recvCh, recvVars, logicVars, tickIn, tickReady,
                   timerIn, timerReady, kaTimedOut, userVars, encVars, delivCnt, relCnt, resCnt,
                   subMsg,
                   persistEvents>>

\* the persistence call that follows the write of a logicSendC packet
SendPersistOp(p) ==
    CASE p.type = "PubRel" -> <<"Store", sendKey(p.id), Kind(p)>>
      [] p.type \in {"PubAck", "PubComp"} -> <<"Delete", sendKey(p.id), NoOrigin>>
      [] OTHER -> <<"None", sendKey(0), NoOrigin>>

HandleSendPostNP(err) ==
    /\ sendPc' = "select"
    /\ sendPkt' = NoPkt
    /\ UNCHANGED <<connVars, sent, sendExit, flushArmed, wire>>

HandleSendPostP(err) ==
    /\ persist' = ApplyPersist(SendPersistOp(sendPkt), err)
    /\ faultsLeft' = Faults(err)
    /\ persistEvents' = notifyPersistMsg(persistEvents, err)

HandleSendPost ==
    /\ sendPc = "post"
    /\ \E err \in Errs : HandleSendPostNP(err) /\ HandleSendPostP(err)
    /\ UNCHANGED <<sendCh, recvCh, recvVars, logicVars, kaVars, userVars, encVars,
                   delivCnt, relCnt, resCnt, subMsg>>

\* --------------------------------------------------------------- keepalive
\* deferred t.Stop(); timeoutTimer.Stop()
StopTimers ==
    /\ tickIn' = 0
    /\ tickReady' = FALSE
    /\ timerIn' = -1
    /\ timerReady' = FALSE

\* case <-c.ctx.Done() in either select, or keepaliveC closed
KeepaliveExit ==
    /\ \/ kaPc \in {"select", "wait"} /\ ctxDone
       \/ kaPc = "wait" /\ keepaliveCClosed
    /\ kaPc' = "exited"
    /\ StopTimers
    /\ UNCHANGED <<connVars, idVars, sendCh, recvCh, recvVars, logicVars, sendVars,
                   sincePing, kaTimedOut, userVars, encVars, histVars>>

\* case <-t.C: c.send(PingReqPacket)
KeepaliveTick ==
    /\ kaPc = "select"
    /\ tickReady
    /\ tickReady' = FALSE
    /\ kaPc' = IF closing THEN "wait" ELSE "send"
    /\ UNCHANGED <<connVars, idVars, sendCh, recvCh, recvVars, logicVars, sendVars,
                   tickIn, timerIn, timerReady, sincePing, kaTimedOut, userVars, encVars,
                   histVars>>

\* timeoutTimer.Reset on a timer whose value was not drained from its
\* channel: the stale value stays or is discarded, depending on the runtime
ResetLeaves(ready) == IF ready THEN BOOLEAN ELSE {FALSE}

\* case <-c.keepaliveC: timeoutTimer.Reset(timeout)
KeepalivePong ==
    /\ kaPc = "wait"
    /\ recvPc = "sendKeepaliveC"
    /\ recvPc' = RecvLoopPc
    /\ recvPkt' = NoPkt
    /\ kaPc' = "select"
    /\ timerIn' = timeout
    /\ timerReady' \in ResetLeaves(timerReady)
    /\ UNCHANGED <<connVars, idVars, sendCh, recvCh, recvLeft, logicVars, sendVars,
                   tickIn, tickReady, sincePing, kaTimedOut, userVars, encVars, histVars>>

\* case <-timeoutTimer.C: c.exit()
KeepaliveTimeout ==
    /\ kaPc = "wait"
    /\ timerReady
    /\ kaPc' = "exited"
    /\ kaTimedOut' = TRUE
    /\ ctxDone' = TRUE
    /\ StopTimers
    /\ UNCHANGED <<protoVersion, keepalive, timeout, connClosed, closing, idVars,
                   sendCh, recvCh, recvVars, logicVars, sendVars, sincePing, userVars, encVars,
                   histVars>>

\* a task has a step it can take without waiting for time or the environment
TaskStepEnabled ==
    ENABLED (\/ LogicStart \/ LogicExit \/ LogicRecv \/ LogicDeliver \/ LogicFinish
             \/ HandleSendExit \/ HandleSendFlush \/ HandleSendLogic \/ HandleSendPing
             \/ HandleSendPost
             \/ KeepaliveExit \/ KeepaliveTick \/ KeepalivePong \/ KeepaliveTimeout)

\* one time unit passes while the keepalive task runs; the tasks' own steps
\* take no time
Tick ==
    /\ kaPc \in {"select", "send", "wait"}
    /\ ~TaskStepEnabled
    /\ tickIn' = IF tickIn = 1 THEN TickerUnits ELSE tickIn - 1
    /\ tickReady' = (tickReady \/ tickIn = 1)
    /\ timerIn' = IF timerIn > 1 THEN timerIn - 1 ELSE -1
    /\ timerReady' = (timerReady \/ timerIn = 1)
    /\ sincePing' = IF sincePing >= 0 /\ sincePing < SinceCap THEN sincePing + 1 ELSE sincePing
    /\ UNCHANGED <<connVars, idVars, sendCh, recvCh, recvVars, logicVars, sendVars,
                   kaPc, kaTimedOut, userVars, encVars, histVars>>

\* the client API, handleNetRecv, logic and handleSend
Next ==
    \/ UserPublish
    \/ UserSubscribe
    \/ UserDisconnect
    \/ UserRecv
    \/ ParentClose
    \/ RecvDecode
    \/ RecvDecodeErr
    \/ LogicStart
    \/ LogicExit
    \/ LogicRecv
    \/ LogicDeliver
    \/ LogicFinish
    \/ HandleSendExit
    \/ HandleSendFlush
    \/ HandleSendUser
    \/ HandleSendLogic
    \/ HandleSendApi
    \/ HandleSendPost

Spec == Init /\ [][Next]_vars

\* the tasks are goroutines: a step that stays possible is eventually taken
SpecLive == Init /\ [][Next]_vars /\ WF_vars(Next)

\* handleNetRecv, logic, handleSend and keepalive under passing time
NextKA ==
    \/ UserRecv
    \/ ParentClose
    \/ RecvDecode
    \/ RecvDecodeErr
    \/ LogicStart
    \/ LogicExit
    \/ LogicRecv
    \/ LogicDeliver
    \/ LogicFinish
    \/ HandleSendExit
    \/ HandleSendFlush
    \/ HandleSendLogic
    \/ HandleSendPing
    \/ HandleSendPost
    \/ KeepaliveExit
    \/ KeepaliveTick
    \/ KeepalivePong
    \/ KeepaliveTimeout
    \/ Tick

SpecKA == InitKA /\ [][NextKA]_vars

\* ------------------------------------------------ SubscribePacket.WriteTo
\* topic names, as UTF-8 bytes: "a/b", "c", and a name of LongLen bytes
LongLen == 130

TopicNames == {<<97, 47, 98>>, <<99>>, [k \in 1..LongLen |-> 97]}

\* the packets WriteTo is called on: nil, or a packet with up to MaxTopics
\* topics, in a supported or an unsupported version
EncTopics == [Name : TopicNames, Qos : {Qos1, Qos2}]

EncTopicLists == UNION {[1..n -> EncTopics] : n \in 0..MaxTopics}

SubInputs ==
    {NilSub} \cup [id : {10, 258}, topics : EncTopicLists, ver : Versions \cup {"V0"}]

\* byte(x)
byte(x) == x % 256

CtrlSubscribe == 8

\* const first = CtrlSubscribe<<4 | 0x02 (the shifted value has a zero low nibble)
first == byte(CtrlSubscribe * 16) + 2

\* varHeader with the two bytes of PacketID swapped
varHeaderLowFirst(s) == <<byte(s.id), byte(s.id \div 256)>>

\* varHeader := []byte{byte(s.PacketID >> 8), byte(s.PacketID)}
varHeader(s) == <<byte(s.id \div 256), byte(s.id)>>

\* encodeStringWithLen: 16-bit big-endian length, then the bytes
encodeStringWithLen(str) == <<byte(Len(str) \div 256), byte(Len(str))>> \o str

\* the variable-byte integer of the fixed header
RECURSIVE encodeRemainLength(_)
encodeRemainLength(n) ==
    IF n < 128 THEN <<n>> ELSE <<(n % 128) + 128>> \o encodeRemainLength(n \div 128)

\* SubscribePacket.payload
RECURSIVE payloadOf(_)
payloadOf(topics) ==
    IF topics = <<>>
    THEN <<>>
    ELSE encodeStringWithLen(Head(topics).Name) \o <<Head(topics).Qos>> \o payloadOf(Tail(topics))

payload(s) == payloadOf(s.topics)

\* BasePacket.write: first byte, remaining length, variable header, payload
write(f, vh, pl) == <<f>> \o encodeRemainLength(Len(vh) + Len(pl)) \o vh \o pl

\* s.Props.props() of a packet without properties: the zero property length
props(s) == <<0>>

\* BasePacket.writeV5: the property table follows the variable header
writeV5(f, vh, pr, pl) ==
    <<f>> \o encodeRemainLength(Len(vh) + Len(pr) + Len(pl)) \o vh \o pr \o pl

\* SubscribePacket.WriteTo: <<error, bytes written>>
WriteTo(s) ==
    IF s = NilSub
    THEN <<"ErrEncodeBadPacket", <<>>>>
    ELSE CASE s.ver = "V311" -> <<"nil", write(first, varHeader(s), payload(s))>>
           [] s.ver = "V5" -> <<"nil", writeV5(first, varHeader(s), props(s), payload(s))>>
           [] OTHER -> <<"ErrUnsupportedVersion", <<>>>>

\* a packet ready to be encoded, the connection's tasks not yet started
InitEnc ==
    /\ InitWith(0, <<1, 1>>, 0, 0)
    /\ subPkt \in SubInputs
    /\ wbuf = <<>>
    /\ wErr = "none"

\* s.WriteTo(w)
SubscribeWriteTo ==
    /\ wErr = "none"
    /\ wErr' = WriteTo(subPkt)[1]
    /\ wbuf' = wbuf \o WriteTo(subPkt)[2]
    /\ UNCHANGED <<connVars, idVars, sendCh, recvCh, recvVars, logicVars, sendVars,
                   kaVars, userVars, histVars, subPkt>>

NextEnc == SubscribeWriteTo

SpecEnc == InitEnc /\ [][NextEnc]_vars

\* ------------------------------------------------------------------ claims
\* the packet whose handler logic runs or completes in a step
Handled == IF logicPc = "select" THEN recvPkt ELSE logicPkt

\* logic completes the handler of a packet in this step
HandlerCompletes ==
    /\ logicPc' = "select"
    /\ \/ logicPc = "select" /\ recvPc = "sendNetRecvC" /\ recvPc' # recvPc
       \/ logicPc \in {"deliver", "finish"}

\* C1: an inbound QoS2 PUBLISH(pid) and its DUP=1 retransmissions before
\* PUBREL(pid) are delivered to the receiver channel at most once.
C1_DeliveredAtMostOnce == \A i \in Pids : delivCnt[i] <= 1

\* C2: once PUBLISH(qos=2, pid) has been handled (RecvKey(pid) holds it), the
\* handler of a following PUBREL(pid) emits PUBCOMP(pid) and deletes
\* RecvKey(pid), whatever the client has in flight under pid.
C2_PubRelCompletes ==
    [][(/\ HandlerCompletes
        /\ Handled.type = "PubRel"
        /\ persist[recvKey(Handled.id)] = Kind(PublishPkt(Handled.id, Qos2, FALSE, "V0"))
        /\ ~closing
        /\ faultsLeft' = faultsLeft)
       => (/\ logicEmit' = Pkt("PubComp", Handled.id, "V0")
           /\ persist'[recvKey(Handled.id)] = NoOrigin)]_vars

\* C3: for an outbound QoS2 PUBLISH under pid the engine emits PUBREL(pid)
\* at most once and PublishResult at most once, has emitted PUBREL(pid) once
\* when the publish completes, and the PUBCOMP handler emits no PUBREL.
C3_Qos2ExactlyOnce ==
    \A i \in Pids :
        /\ relCnt[i] <= 1
        /\ resCnt[i] <= 1
        /\ (logicPkt.type = "PubComp" /\ logicPkt.id = i) => logicEmit.type # "PubRel"

\* C4: the handler of PUBACK(pid) frees pid and emits the one PublishResult of
\* the request when pid is bound to a QoS1 PUBLISH; otherwise (pid free after
\* an earlier PUBACK, or bound to another request) it frees nothing and emits
\* no PublishResult.
C4_PubAckOnce ==
    [][(HandlerCompletes /\ Handled.type = "PubAck")
       => LET i == Handled.id
          IN IF sent[i] = Kind(PublishPkt(i, Qos1, FALSE, "V0"))
             THEN sent'[i] = NoOrigin /\ resCnt'[i] = 1 /\ resCnt[i] = 0
             ELSE sent' = sent /\ resCnt' = resCnt]_vars

\* a second PUBACK(pid) arrives after the first completed the QoS1 publish
C4_Witness ==
    \E i \in Pids :
        /\ logicPc = "select"
        /\ logicPkt = Pkt("PubAck", i, protoVersion)
        /\ resCnt[i] = 1
        /\ ~getExtraOk(i)
        /\ recvPc = "sendNetRecvC"
        /\ recvPkt = Pkt("PubAck", i, protoVersion)
        /\ \E w \in wire : w.type = "Publish" /\ w.qos = Qos1 /\ w.id = i

\* the terminal ack of a request
TerminalAck(origin) ==
    CASE origin.type = "Subscribe" -> "SubAck"
      [] origin.type = "UnSub" -> "UnSubAck"
      [] origin.type = "Publish" /\ origin.qos = Qos1 -> "PubAck"
      [] origin.type = "Publish" /\ origin.qos = Qos2 -> "PubComp"
      [] OTHER -> "None"

\* C5: a bound pid is freed only by the step in which logic completes the
\* handler of the terminal ack of the request bound to it, and while bound it
\* is never bound to another request.
C5_FreeOnlyOnTerminalAck ==
    [][\A i \in Pids :
          sent[i] # NoOrigin =>
             /\ sent'[i] \in {sent[i], NoOrigin}
             /\ sent'[i] = NoOrigin =>
                   /\ HandlerCompletes
                   /\ Handled.id = i
                   /\ Handled.type = TerminalAck(sent[i])]_vars

\* a QoS2 publish completed by PUBCOMP after its PUBREC was handled
C5_Witness ==
    \E i \in Pids :
        /\ logicPc = "select"
        /\ logicPkt = Pkt("PubComp", i, protoVersion)
        /\ ~getExtraOk(i)
        /\ resCnt[i] = 1
        /\ relCnt[i] >= 1

\* C6: the keepalive task closes the connection for timeout only when at
\* least keepalive x factor has passed since the PINGREQ was sent.
C6_KeepaliveDeadline == (kaTimedOut /\ ~closing) => sincePing >= timeout

\* C7: after cancellation no task sits at a send on netRecvC, keepaliveC or
\* logicSendC whose receiving task has exited (or was never started).
C7_NoSendToExitedTask ==
    ctxDone =>
        /\ ~(recvPc = "sendNetRecvC" /\ logicPc = "exited")
        /\ ~(recvPc = "sendKeepaliveC" /\ (kaPc = "exited" \/ (kaPc = "off" /\ logicPc # "start")))
        /\ ~(logicPc = "send" /\ sendPc = "exited")
        /\ ~(kaPc = "send" /\ sendPc = "exited")

\* C8: when handleSend has returned on an encode error the connection is
\* closed: its context is cancelled or its transport is closed.
C8_EncodeErrorCloses == sendExit = "encode" => (ctxDone \/ connClosed)

\* C9: every packet written by handleSend and every packet handleNetRecv
\* hands to logic has the connection's protoVersion, and a decoded packet that
\* is not handed on cancels the connection.
C9_VersionInvariant ==
    /\ [](/\ \A w \in wire : Version(w) = protoVersion
          /\ recvPc = "sendNetRecvC" => Version(recvPkt) = protoVersion
          /\ logicPkt # NoPkt => Version(logicPkt) = protoVersion)
    /\ [][(recvLeft' < recvLeft /\ recvPc' \notin {"sendNetRecvC", "sendKeepaliveC"})
          => (ctxDone' /\ recvPc' = "exited")]_vars

\* an engine-built PUBACK, produced with the zero version, is on the wire
\* while the receive loop hands the next packet to logic
C9_Witness ==
    /\ \E w \in wire : w.type = "PubAck" /\ Version(w) = protoVersion
    /\ recvPc = "sendNetRecvC"
    /\ Version(recvPkt) = protoVersion

\* the persistence call of a logic handler fails in this step
LogicPersistFails ==
    /\ faultsLeft' < faultsLeft
    /\ HandlerCompletes
    /\ sendPc' = sendPc
    /\ sendCh' = sendCh
    /\ userLeft' = userLeft

\* the persistence call of handleSend fails in this step
SendPersistFails == faultsLeft' < faultsLeft /\ sendPc = "post" /\ sendPc' = "select"

\* C10: when the persistence call of a logic handler or of handleSend fails,
\* the failure is surfaced as a persistence event, the step's emissions, pid
\* frees and notifications are those of the successful call, and the
\* connection is neither cancelled nor closed.
C10_PersistFailNonFatal ==
    [][/\ LogicPersistFails =>
             /\ persistEvents' = persistEvents + 1
             /\ LogicDoneNP(Handled, FALSE)
       /\ SendPersistFails =>
             /\ persistEvents' = persistEvents + 1
             /\ HandleSendPostNP(FALSE)]_vars

\* the Delete of SendKey(pid) failed on PUBACK: the event is surfaced, the
\* entry is still stored, and the pid is freed with its PublishResult
C10_Witness ==
    \E i \in Pids :
        /\ logicPc = "select"
        /\ logicPkt = Pkt("PubAck", i, protoVersion)
        /\ persistEvents = 1
        /\ persist[sendKey(i)] = Kind(PublishPkt(i, Qos1, FALSE, "V0"))
        /\ ~getExtraOk(i)
        /\ resCnt[i] = 1
        /\ ~ctxDone

\* the acks of the client's own requests, looked up in idGen by pid
OriginAcks == {"SubAck", "UnSubAck", "PubAck", "PubRecv", "PubComp"}

\* C11: the handler of a SUBACK, UNSUBACK, PUBACK, PUBREC or PUBCOMP whose pid
\* is not bound in idGen emits no packet and no result, makes no persistence
\* call, leaves idGen unchanged and neither cancels nor closes the connection.
C11_UnknownPidIgnored ==
    [][(HandlerCompletes /\ Handled.type \in OriginAcks /\ ~getExtraOk(Handled.id))
       => (/\ logicEmit' = NoPkt
           /\ relCnt' = relCnt
           /\ resCnt' = resCnt
           /\ persist' = persist
           /\ persistEvents' = persistEvents
           /\ faultsLeft' = faultsLeft
           /\ sent' = sent
           /\ connVars' = connVars)]_vars

\* a PUBCOMP for a pid that was never bound has been handled and the
\* connection is still up
C11_Witness ==
    \E i \in Pids :
        /\ logicPc = "select"
        /\ logicPkt = Pkt("PubComp", i, protoVersion)
        /\ ~getExtraOk(i)
        /\ resCnt[i] = 0
        /\ logicEmit = NoPkt
        /\ persist[sendKey(i)] = NoOrigin
        /\ ~ctxDone
        /\ ~connClosed

\* the packet types the type switch of logic has a case for
EngineTypes == OriginAcks \cup {"Publish", "PubRel"}

\* C12: when logic has handled a packet of a type it has no transition for,
\* the connection is closed: its context is cancelled or its transport closed.
C12_UnknownIsProtocolError ==
    [][(HandlerCompletes /\ Handled.type \notin EngineTypes)
       => (ctxDone' \/ connClosed')]_vars

\* C13: once handleSend has returned, the requests still pending in sendCh
\* are eventually taken out of it (to be failed with ConnectionClosed).
C13_SendChDrained == (sendPc = "exited") ~> (sendCh = <<>>)

\* C14: the step in which handleSend writes a DISCONNECT taken from sendCh or
\* logicSendC also flushes the writer (nothing stays buffered unless the Flush
\* fails), closes the transport, cancels the context and ends handleSend with
\* the flush timer stopped; afterwards handleSend writes nothing and takes
\* nothing from sendCh or logicSendC.
C14_DisconnectTearsDown ==
    /\ [](sendExit = "disconn" => (sendPc = "exited" /\ connClosed /\ ctxDone /\ ~flushArmed))
    /\ [][(sendExit # "disconn" /\ sendExit' = "disconn")
          => (/\ sendPc = "select"
              /\ \/ sendCh # <<>> /\ Head(sendCh).type = "DisConn" /\ sendCh' = Tail(sendCh)
                 \/ apiOut.type = "DisConn" /\ apiOut' = NoPkt
              /\ (wire' = {} \/ faultsLeft' < faultsLeft))]_vars
    /\ [][sendExit = "disconn"
          => (/\ wire' = wire
              /\ Len(sendCh') >= Len(sendCh)
              /\ (logicPc = "send" => logicPc' = "send")
              /\ (apiOut # NoPkt => apiOut' = apiOut)
              /\ sendExit' = "disconn")]_vars

\* the client's DISCONNECT was written and flushed while a PUBACK of logic
\* was waiting on logicSendC: the PUBACK is never written
C14_Witness ==
    /\ sendExit = "disconn"
    /\ userLeft = 0
    /\ apiOut = NoPkt
    /\ sendCh = <<>>
    /\ logicPc = "send"
    /\ logicOut.type = "PubAck"
    /\ wire = {}

\* QoS values a Topic may hold
TopicQos == {Qos0, Qos1, Qos2}

\* C15: the Topic of every in-flight SUBSCRIBE and every topic reported by
\* notifySubMsg has qos in {0,1,2}: a SUBACK failure code is never recorded
\* as a topic's granted QoS nor reported as a successful subscription.
C15_TopicQosInvariant ==
    /\ \A i \in Pids : sent[i].type = "Subscribe" => sent[i].qos \in TopicQos
    /\ \A k \in 1..Len(subMsg) : subMsg[k] \in TopicQos

\* the SUBSCRIBE of the example: PID=10, topics [("a/b", 1), ("c", 2)], V3.1.1
ExampleSub ==
    [id |-> 10,
     topics |-> <<[Name |-> <<97, 47, 98>>, Qos |-> Qos1], [Name |-> <<99>>, Qos |-> Qos2]>>,
     ver |-> "V311"]

\* 82 0C 00 0A 00 03 61 2F 62 01 00 01 63 02: the remaining length counts the
\* 2 bytes of the PID and the 10 bytes of the two topics
ExampleBytes == <<130, 12, 0, 10, 0, 3, 97, 47, 98, 1, 0, 1, 99, 2>>

\* 82 0A 00 0A 00 03 61 2F 62 01 00 01 63 02
StatedBytes == <<130, 10, 0, 10, 0, 3, 97, 47, 98, 1, 0, 1, 99, 2>>

\* the value of the variable-byte integer that starts at b[1], and its length
RECURSIVE RemainLengthAt(_, _)
RemainLengthAt(b, k) ==
    IF b[k] < 128 THEN b[k] ELSE (b[k] - 128) + 128 * RemainLengthAt(b, k + 1)

RECURSIVE RemainLengthBytes(_, _)
RemainLengthBytes(b, k) == IF b[k] < 128 THEN 1 ELSE 1 + RemainLengthBytes(b, k + 1)

\* the topics read back from a payload: 16-bit length, name, options byte
RECURSIVE TopicsIn(_)
TopicsIn(b) ==
    IF b = <<>>
    THEN <<>>
    ELSE LET n == b[1] * 256 + b[2]
         IN <<[Name |-> SubSeq(b, 3, 2 + n), Qos |-> b[3 + n]]>>
            \o TopicsIn(SubSeq(b, 4 + n, Len(b)))

\* C16 as stated: the SUBSCRIBE with PID=10 and topics [("a/b", 1), ("c", 2)]
\* encodes to exactly 82 0A 00 0A 00 03 61 2F 62 01 00 01 63 02.
C16_BytesAsStated == (wErr = "nil" /\ subPkt = ExampleSub) => wbuf = StatedBytes

\* C16, amended: WriteTo of a V3.1.1 SUBSCRIBE writes the first byte
\* (control-type << 4) | 0x02, the variable-byte remaining length (the number
\* of bytes that follow it), the big-endian PID and, for each topic in order,
\* its 16-bit-length-prefixed name and its options byte; for PID=10 and topics
\* [("a/b", 1), ("c", 2)] these are 82 0C 00 0A 00 03 61 2F 62 01 00 01 63 02.
C16_SubscribeV311Bytes ==
    (wErr = "nil" /\ subPkt.ver = "V311") =>
        LET h == 1 + RemainLengthBytes(wbuf, 2)
        IN /\ subPkt = ExampleSub => wbuf = ExampleBytes
           /\ wbuf[1] = 8 * 16 + 2
           /\ RemainLengthAt(wbuf, 2) = Len(wbuf) - h
           /\ wbuf[h + 1] * 256 + wbuf[h + 2] = subPkt.id
           /\ TopicsIn(SubSeq(wbuf, h + 3, Len(wbuf))) = subPkt.topics

\* the example packet has been encoded
C16_Witness == wErr = "nil" /\ subPkt = ExampleSub /\ wbuf = ExampleBytes

\* an outbound QoS>0 PUBLISH is in flight under pid i
PublishInFlight(i) == sent[i].type = "Publish" /\ sent[i].qos \in {Qos1, Qos2}

\* C17: while an outbound QoS>0 PUBLISH stays in flight under pid, no step
\* removes its SendKey(pid) entry from persistence.
C17_SendKeyKept ==
    [][\A i \in Pids :
          (PublishInFlight(i) /\ sent'[i] = sent[i] /\ persist[sendKey(i)] # NoOrigin)
          => persist'[sendKey(i)] # NoOrigin]_vars

\* C18: once logic has completed the handler of PUBCOMP(pid) for an outbound
\* QoS2 PUBLISH and handleSend has finished with every packet it took, and no
\* persistence call has failed, persistence holds no SendKey(pid) entry while
\* pid stays free.
C18_SendKeyGoneAfterPubComp ==
    \A i \in Pids :
        (/\ logicPc = "select"
         /\ logicPkt.type = "PubComp"
         /\ logicPkt.id = i
         /\ resCnt[i] = 1
         /\ ~getExtraOk(i)
         /\ sendPc # "post"
         /\ faultsLeft = MaxFaults)
        => persist[sendKey(i)] = NoOrigin

\* C19: when logic completes the handler of PUBCOMP(pid) while the outbound
\* QoS2 PUBLISH bound to pid is awaiting PUBREC (the only PUBREL(pid) emitted
\* since the allocation is the one this handler sent), it neither frees pid
\* nor emits the PublishResult.
C19_PubCompNeedsPubRec ==
    [][\A i \in Pids :
          (/\ HandlerCompletes
           /\ logicPc = "finish"
           /\ logicPkt.type = "PubComp"
           /\ logicPkt.id = i
           /\ sent[i] = Kind(PublishPkt(i, Qos2, FALSE, "V0"))
           /\ relCnt[i] = 1
           /\ logicEmit.type = "PubRel")
          => (sent'[i] = sent[i] /\ resCnt'[i] = resCnt[i])]_vars

\* C20: handleNetRecv never stays at its send of a PINGRESP on keepaliveC:
\* whenever it is there it eventually leaves, to decode the next packet or to
\* return on cancellation.
C20_PingRespNeverStalls == (recvPc = "sendKeepaliveC") ~> (recvPc # "sendKeepaliveC")
====
